---------------------------- MODULE Spec2Model ----------------------------
(***************************************************************************)
(* Model of streamlit_app.py: the NASA EONET dashboard.  Every run of the  *)
(* script calls the cached fetcher get_eonet_data, builds the normalized    *)
(* table df, reads the two sidebar widgets and filters and renders.         *)
(*                                                                          *)
(* Nullable values (Python None, pandas NaN/NaT) are records                *)
(*   [isnull |-> TRUE]   and   [isnull |-> FALSE, val |-> v].               *)
(* Date strings are sequences of one-character strings, so that parsing     *)
(* them is a computation.                                                   *)
(***************************************************************************)
EXTENDS Integers, Sequences, FiniteSets, TLC

VARIABLES
    now,                 \* wall clock, in seconds
    ticks,               \* number of clock advances so far (bounds the clock)
    cache,               \* the st.cache_data entry of get_eonet_data()
    request_log,         \* times at which requests.get was issued
    cache_hit,           \* the latest run was served from the cache
    run_at,              \* time of the latest run
    events_data,         \* script variable events_data of the latest run
    df,                  \* script variable df at the end of the latest run
    status,              \* "init", "ok" or "exception": how the latest run ended
    selected_year,       \* value of the year selectbox in the latest run
    selected_categories, \* value of the category multiselect in the latest run
    filtered_df,         \* script variable filtered_df of the latest run
    trace                \* the elements the latest run rendered, in order

vars == <<now, ticks, cache, request_log, cache_hit, run_at, events_data, df, status,
          selected_year, selected_categories, filtered_df, trace>>

----------------------------------------------------------------------------
(* Bounds of the model *)

MaxEvents == 2

MaxTicks == 3

MaxRequests == 2

(* Program constant: @st.cache_data(ttl=3600) *)
TTL == 3600

----------------------------------------------------------------------------
(* Nullable values *)

None == [isnull |-> TRUE]

Some(v) == [isnull |-> FALSE, val |-> v]

Range(s) == {s[i] : i \in 1..Len(s)}

----------------------------------------------------------------------------
(* Upstream data: ISO-8601 date strings as the EONET API emits them *)

Digits == <<"0", "1", "2", "3", "4", "5", "6", "7", "8", "9">>

TwoDigits(n) == <<Digits[(n \div 10) + 1], Digits[(n % 10) + 1]>>

FourDigits(n) == TwoDigits(n \div 100) \o TwoDigits(n % 100)

\* "YYYY-MM-DDTHH:MM:SSZ" of a timestamp t
IsoString(t) ==
    FourDigits(t.year) \o <<"-">> \o TwoDigits(t.month) \o <<"-">> \o TwoDigits(t.day)
    \o <<"T">> \o TwoDigits(t.hour) \o <<":">> \o TwoDigits(t.minute) \o <<":">>
    \o TwoDigits(t.second) \o <<"Z">>

Stamp(y, mo, d, h, mi, s) ==
    [year |-> y, month |-> mo, day |-> d, hour |-> h, minute |-> mi, second |-> s]

PoolStamps ==
    { Stamp(2020, 5, 1, 0, 0, 0), Stamp(2019, 12, 31, 23, 59, 59), Stamp(2020, 2, 29, 12, 30, 0) }

NotADate == <<"n", "o", "t", "-", "a", "-", "d", "a", "t", "e">>

Sample(date, coordinates) == [date |-> date, coordinates |-> coordinates]

RawEvent(id, title, categories, geometry) ==
    [id |-> id, title |-> title, categories |-> categories, geometry |-> geometry]

Cat(t) == [title |-> t]

evA ==
    RawEvent("A", "Fire A", <<Cat("Wildfires")>>,
             << Sample(Some(IsoString(Stamp(2020, 5, 1, 0, 0, 0))), <<Some(10), Some(20)>>) >>)

evB == RawEvent("B", "Empty B", <<>>, <<>>)

evC ==
    RawEvent("C", "Flood C", <<Cat("Floods"), Cat("Wildfires")>>,
             << Sample(Some(IsoString(Stamp(2019, 12, 31, 23, 59, 59))), <<Some(-30), Some(45)>>),
                Sample(Some(IsoString(Stamp(2020, 5, 1, 0, 0, 0))), <<Some(1), Some(2)>>) >>)

\* same id as evA, no category, coordinates outside the geographic range
evA2 ==
    RawEvent("A", "Other A", <<>>,
             << Sample(Some(IsoString(Stamp(2020, 2, 29, 12, 30, 0))), <<Some(200), Some(-95), Some(7)>>) >>)

\* first sample with a single coordinate
evShort ==
    RawEvent("E", "Short E", <<Cat("Floods")>>,
             << Sample(Some(IsoString(Stamp(2020, 5, 1, 0, 0, 0))), <<Some(5)>>) >>)

\* first sample without a date
evNoDate ==
    RawEvent("G", "Undated G", <<Cat("Floods")>>, << Sample(None, <<Some(3), Some(4)>>) >>)

\* first sample whose latitude is JSON null
evNullLat ==
    RawEvent("H", "Null H", <<Cat("Wildfires")>>,
             << Sample(Some(IsoString(Stamp(2019, 12, 31, 23, 59, 59))), <<Some(6), None>>) >>)

\* first sample whose date is not a timestamp
evBad ==
    RawEvent("F", "Bad F", <<Cat("Floods")>>, << Sample(Some(NotADate), <<Some(7), Some(8)>>) >>)

\* event lists the cache and clock behaviour is explored with
CoreBodies == { <<>>, <<evA>>, <<evB>>, <<evB, evShort>>, <<evA, evC>>, <<evC, evA2>>, <<evA, evBad>> }

FullPool == {evA, evB, evC, evA2, evShort, evNoDate, evNullLat, evBad}

SeqsUpTo(S, n) == UNION { [1..k -> S] : k \in 0..n }

OkResponse(has_events, events) ==
    [kind |-> "ok", has_events |-> has_events, events |-> events]

FailResponse(cause) == [kind |-> "fail", cause |-> cause]

Failures == { FailResponse("ConnectionError"), FailResponse("HTTPError") }

\* what the upstream can answer to one request
Responses ==
    Failures \cup {OkResponse(FALSE, <<>>)}
    \cup { OkResponse(TRUE, es) : es \in CoreBodies }

FullResponses == { OkResponse(TRUE, es) : es \in SeqsUpTo(FullPool, MaxEvents) }

----------------------------------------------------------------------------
(* The fetcher: get_eonet_data and its st.cache_data(ttl=3600) decorator *)

El(elem, line) == [elem |-> elem, line |-> line]

\* Variant of get_eonet_data: the except branch returns None without st.error
get_eonet_data_Silent(resp) ==
    IF resp.kind = "ok"
    THEN [value |-> Some(IF resp.has_events THEN resp.events ELSE <<>>),
          elements |-> <<>>]
    ELSE [value |-> None, elements |-> <<>>]

\* Body of get_eonet_data for one upstream answer: the returned value and the
\* elements it renders.  A RequestException is caught, reported with its cause
\* by st.error and answered with None; there is no second requests.get.
get_eonet_data(resp) ==
    IF resp.kind = "ok"
    THEN [value |-> Some(IF resp.has_events THEN resp.events ELSE <<>>),
          elements |-> <<>>]
    ELSE [value |-> None,
          elements |-> << [elem |-> "st.error", line |-> 42, cause |-> resp.cause] >>]

\* Variant of CacheFresh: the entry expires one second early
CacheFresh_OffByOne == cache.valid /\ now - cache.stored_at < TTL - 1

\* Variant of CacheFresh: a stored None is not served
CacheFresh_SkipNone == cache.valid /\ ~cache.value.isnull /\ now - cache.stored_at < TTL

\* The decorator serves the stored entry while it is younger than ttl.
CacheFresh == cache.valid /\ now - cache.stored_at < TTL

----------------------------------------------------------------------------
(* Table Builder: lines 51-66 *)

ExtractCategory(x) == IF x # <<>> THEN x[1].title ELSE "N/A"

ExtractDate(geoms) == IF geoms # <<>> THEN geoms[1].date ELSE None

\* Variant of ExtractLatitude: the coordinate indices are swapped
ExtractLatitude_Swapped(geoms) ==
    IF geoms # <<>> /\ Len(geoms[1].coordinates) > 1 THEN geoms[1].coordinates[1] ELSE None

ExtractLatitude(geoms) ==
    IF geoms # <<>> /\ Len(geoms[1].coordinates) > 1 THEN geoms[1].coordinates[2] ELSE None

ExtractLongitude(geoms) ==
    IF geoms # <<>> /\ Len(geoms[1].coordinates) > 0 THEN geoms[1].coordinates[1] ELSE None

ExtractRow(e) ==
    [id |-> e.id, title |-> e.title, categories |-> e.categories, geometry |-> e.geometry,
     category |-> ExtractCategory(e.categories),
     date |-> ExtractDate(e.geometry),
     latitude |-> ExtractLatitude(e.geometry),
     longitude |-> ExtractLongitude(e.geometry)]

ExtractRows(events) == [i \in 1..Len(events) |-> ExtractRow(events[i])]

\* Variant of DropNaKeeps: 'date' is missing from the subset
DropNaKeeps_NoDate(r) == ~r.latitude.isnull /\ ~r.longitude.isnull

\* Variant of DropNaKeeps: one coordinate is enough
DropNaKeeps_AnyCoord(r) == (~r.latitude.isnull \/ ~r.longitude.isnull) /\ ~r.date.isnull

\* df.dropna(subset=['latitude', 'longitude', 'date']) keeps a row
DropNaKeeps(r) == ~r.latitude.isnull /\ ~r.longitude.isnull /\ ~r.date.isnull

\* Variant of DropNa: followed by drop_duplicates(subset=['id'])
DropNa_Dedup(rows) ==
    LET kept == SelectSeq(rows, LAMBDA r : ~r.latitude.isnull /\ ~r.longitude.isnull /\ ~r.date.isnull)
        idx  == {i \in 1..Len(kept) : \A j \in 1..(i - 1) : kept[j].id # kept[i].id}
        F[n \in 0..Len(kept)] ==
            IF n = 0 THEN <<>>
            ELSE IF n \in idx THEN Append(F[n - 1], kept[n]) ELSE F[n - 1]
    IN F[Len(kept)]

DropNa(rows) == SelectSeq(rows, DropNaKeeps)

IsDigit(c) == \E i \in 1..10 : Digits[i] = c

DigitVal(c) == (CHOOSE i \in 1..10 : Digits[i] = c) - 1

Num2(s, i) == 10 * DigitVal(s[i]) + DigitVal(s[i + 1])

Num4(s, i) == 100 * Num2(s, i) + Num2(s, i + 2)

IsLeap(y) == (y % 4 = 0 /\ y % 100 # 0) \/ y % 400 = 0

DaysIn(y, m) ==
    IF m = 2 THEN (IF IsLeap(y) THEN 29 ELSE 28)
    ELSE IF m \in {4, 6, 9, 11} THEN 30 ELSE 31

\* The string has the shape YYYY-MM-DDTHH:MM:SSZ and names a real instant
Parses(s) ==
    /\ Len(s) = 20
    /\ \A i \in {1, 2, 3, 4, 6, 7, 9, 10, 12, 13, 15, 16, 18, 19} : IsDigit(s[i])
    /\ s[5] = "-" /\ s[8] = "-" /\ s[11] = "T" /\ s[14] = ":" /\ s[17] = ":" /\ s[20] = "Z"
    /\ Num2(s, 6) \in 1..12
    /\ Num2(s, 9) \in 1..DaysIn(Num4(s, 1), Num2(s, 6))
    /\ Num2(s, 12) \in 0..23 /\ Num2(s, 15) \in 0..59 /\ Num2(s, 18) \in 0..59

ParseStamp(s) ==
    Stamp(Num4(s, 1), Num2(s, 6), Num2(s, 9), Num2(s, 12), Num2(s, 15), Num2(s, 18))

\* pd.to_datetime on one cell: a null stays null (NaT)
to_datetime(cell) == IF cell.isnull THEN None ELSE Some(ParseStamp(cell.val))

\* pd.to_datetime(df['date']) raises (errors='raise') when a cell does not parse
ToDatetimeRaises(rows) ==
    \E i \in 1..Len(rows) : ~rows[i].date.isnull /\ ~Parses(rows[i].date.val)

\* .dt.year of one cell
YearOf(ts) == IF ts.isnull THEN None ELSE Some(ts.val.year)

\* lines 65-66 on one row: the date column parsed, the year column added
WithYear(r) ==
    [id |-> r.id, title |-> r.title, categories |-> r.categories, geometry |-> r.geometry,
     category |-> r.category, latitude |-> r.latitude, longitude |-> r.longitude,
     date |-> to_datetime(r.date), year |-> YearOf(to_datetime(r.date))]

WithYears(rows) == [i \in 1..Len(rows) |-> WithYear(rows[i])]

----------------------------------------------------------------------------
(* Sidebar and filter: lines 70-93 *)

SetMax(S) == CHOOSE x \in S : \A y \in S : y <= x

RECURSIVE SortDesc(_)
SortDesc(S) == IF S = {} THEN <<>> ELSE <<SetMax(S)>> \o SortDesc(S \ {SetMax(S)})

\* sorted(df['year'].unique(), reverse=True)
available_years(d) == SortDesc({d[i].year.val : i \in {j \in 1..Len(d) : ~d[j].year.isnull}})

\* df['category'].unique(); its sorted order only arranges the control
all_categories(d) == {d[i].category : i \in 1..Len(d)}

\* Variant of FilterMask: an empty category selection means every category
FilterMask_EmptyMeansAll(r, year, categories) ==
    /\ ~r.year.isnull /\ ~year.isnull /\ r.year.val = year.val
    /\ (categories = {} \/ r.category \in categories)

\* (df['year'] == selected_year) & (df['category'].isin(selected_categories))
FilterMask(r, year, categories) ==
    /\ ~r.year.isnull /\ ~year.isnull /\ r.year.val = year.val
    /\ r.category \in categories

Filter(d, year, categories) == SelectSeq(d, LAMBDA r : FilterMask(r, year, categories))

----------------------------------------------------------------------------
(* One run of the script, lines 46-136 *)

\* if events_data:  (None and the empty list are both falsy)
Truthy(ed) == ~ed.isnull /\ ed.val # <<>>

\* The sidebar of the latest run was rendered (lines 71-87 were reached)
SidebarShown == status = "ok" /\ Truthy(events_data)

\* A widget keeps the user's value while it is rendered with the same options;
\* otherwise it shows its default: index 0 for the selectbox (None without
\* options), default=all_categories for the multiselect.
SelectboxValue(options, keep, choice) ==
    IF keep /\ ~choice.isnull /\ choice.val \in Range(options) THEN choice
    ELSE IF options = <<>> THEN None ELSE Some(options[1])

MultiselectValue(options, keep, choice) == IF keep THEN choice \cap options ELSE options

\* lines 98-133: what is rendered for the filtered view
RenderView(f) ==
    IF f # <<>>
    THEN << El("st.metric", 100), El("st.dataframe", 106),
            [elem |-> "folium_static", line |-> 130, markers |-> Len(f)] >>
    ELSE << El("st.warning", 133) >>

\* Lines 49-136 for the value ed returned by the fetcher, after the fetcher
\* rendered `elements`; choice_year and choice_categories are the widget values
\* the session holds.
Script(ed, elements, choice_year, choice_categories) ==
    IF ~Truthy(ed)
    THEN [df |-> <<>>, status |-> "ok", selected_year |-> None,
          selected_categories |-> {}, filtered_df |-> <<>>,
          trace |-> elements \o << El("st.error", 136) >>]
    ELSE
      LET kept == DropNa(ExtractRows(ed.val)) IN
      IF ToDatetimeRaises(kept)
      THEN [df |-> kept, status |-> "exception", selected_year |-> None,
            selected_categories |-> {}, filtered_df |-> <<>>,
            trace |-> elements \o << El("exception", 65) >>]
      ELSE
        LET d    == WithYears(kept)
            keepY == SidebarShown /\ available_years(df) = available_years(d)
            keepC == SidebarShown /\ all_categories(df) = all_categories(d)
            y    == SelectboxValue(available_years(d), keepY, choice_year)
            c    == MultiselectValue(all_categories(d), keepC, choice_categories)
            f    == Filter(d, y, c)
        IN [df |-> d, status |-> "ok", selected_year |-> y,
            selected_categories |-> c, filtered_df |-> f,
            trace |-> elements
                      \o << [elem |-> "st.success", line |-> 68, count |-> Len(d)],
                            El("st.selectbox", 76), El("st.multiselect", 83),
                            El("st.header", 96) >>
                      \o RenderView(f)]

\* The run's assignments to the script variables
Finish(r) ==
    /\ run_at' = now
    /\ df' = r.df
    /\ status' = r.status
    /\ selected_year' = r.selected_year
    /\ selected_categories' = r.selected_categories
    /\ filtered_df' = r.filtered_df
    /\ trace' = r.trace

\* One run: events_data = get_eonet_data() through the cache (line 46), then the
\* rest of the script.  On a hit the function body does not run; the stored value
\* is returned and the elements it rendered are replayed.
Run(upstream, choice_year, choice_categories) ==
    IF CacheFresh
    THEN /\ cache_hit' = TRUE
         /\ events_data' = cache.value
         /\ UNCHANGED <<cache, request_log>>
         /\ Finish(Script(cache.value, cache.elements, choice_year, choice_categories))
    ELSE /\ Len(request_log) < MaxRequests
         /\ \E resp \in upstream :
              LET got == get_eonet_data(resp) IN
              /\ cache_hit' = FALSE
              /\ events_data' = got.value
              /\ cache' = [valid |-> TRUE, stored_at |-> now, value |-> got.value,
                           elements |-> got.elements]
              /\ request_log' = Append(request_log, now)
              /\ Finish(Script(got.value, got.elements, choice_year, choice_categories))

----------------------------------------------------------------------------
(* Actions *)

Init ==
    /\ now = 0
    /\ ticks = 0
    /\ cache = [valid |-> FALSE, stored_at |-> 0, value |-> None, elements |-> <<>>]
    /\ request_log = <<>>
    /\ cache_hit = FALSE
    /\ run_at = 0
    /\ events_data = None
    /\ df = <<>>
    /\ status = "init"
    /\ selected_year = None
    /\ selected_categories = {}
    /\ filtered_df = <<>>
    /\ trace = <<>>

\* Time passes between runs
Tick ==
    /\ ticks < MaxTicks
    /\ \E d \in {1, TTL - 1, TTL} : now' = now + d
    /\ ticks' = ticks + 1
    /\ UNCHANGED <<cache, request_log, cache_hit, run_at, events_data, df, status,
                   selected_year, selected_categories, filtered_df, trace>>

\* The page is opened or reloaded with the session's widget values
Rerun(upstream) ==
    /\ Run(upstream, selected_year, selected_categories)
    /\ UNCHANGED <<now, ticks>>

\* The user picks another year in the selectbox, which reruns the script
SelectYear(upstream) ==
    /\ SidebarShown
    /\ \E y \in Range(available_years(df)) :
          /\ Some(y) # selected_year
          /\ Run(upstream, Some(y), selected_categories)
    /\ UNCHANGED <<now, ticks>>

\* The user changes the multiselect, which reruns the script
SelectCategories(upstream) ==
    /\ SidebarShown
    /\ \E c \in SUBSET all_categories(df) :
          /\ c # selected_categories
          /\ Run(upstream, selected_year, c)
    /\ UNCHANGED <<now, ticks>>

Next ==
    \/ Tick
    \/ Rerun(Responses)
    \/ SelectYear(Responses)
    \/ SelectCategories(Responses)

Spec == Init /\ [][Next]_vars

\* The table builder and the filter on every upstream answer of FullResponses,
\* with the clock held still
NextNorm ==
    \/ Rerun(FullResponses)
    \/ SelectYear(FullResponses)
    \/ SelectCategories(FullResponses)

SpecNorm == Init /\ [][NextNorm]_vars

----------------------------------------------------------------------------
(* Properties *)

\* the upstream record a table row was built from
RawOf(r) == RawEvent(r.id, r.title, r.categories, r.geometry)

RawRows(d) == [i \in 1..Len(d) |-> RawOf(d[i])]

HasElement(elem, line) == \E i \in 1..Len(trace) : trace[i].elem = elem /\ trace[i].line = line

\* a step that is a run of the script (the clock stands still during a run)
RunStep == now' = now /\ ticks' = ticks

\* the stored entry is less than 3600 seconds old
InWindow == cache.valid /\ now - cache.stored_at < 3600

\* the first geometry sample of e has a date and two leading coordinates
Complete(e) ==
    /\ e.geometry # <<>>
    /\ ~e.geometry[1].date.isnull
    /\ Len(e.geometry[1].coordinates) >= 2
    /\ ~e.geometry[1].coordinates[1].isnull
    /\ ~e.geometry[1].coordinates[2].isnull

\* C1: a call made less than 3600 seconds after the call that issued the
\* upstream request issues no further request and returns the value that call
\* fetched; any two upstream requests are at least 3600 seconds apart.
C1_OneRequestPerWindow ==
    /\ [](\A i, j \in 1..Len(request_log) :
            i < j => request_log[j] - request_log[i] >= 3600)
    /\ [][(InWindow /\ RunStep) =>
            /\ request_log' = request_log
            /\ cache' = cache
            /\ events_data' = cache.value]_vars

\* a run served from the cache at the last second of the window
C1_Witness ==
    /\ cache_hit
    /\ run_at - cache.stored_at = 3599
    /\ Truthy(events_data)
    /\ Len(request_log) = 1

\* C2: every row of the table has a non-null latitude, longitude and date, and
\* no row comes from a record with an empty geometry sequence.
C2_RetainedRowsComplete ==
    Truthy(events_data) =>
        \A i \in 1..Len(df) :
            /\ ~df[i].latitude.isnull
            /\ ~df[i].longitude.isnull
            /\ ~df[i].date.isnull
            /\ df[i].geometry # <<>>

\* a table built from an input that held a record with an empty geometry
C2_Witness ==
    /\ status = "ok"
    /\ Truthy(events_data)
    /\ df # <<>>
    /\ \E i \in 1..Len(events_data.val) : events_data.val[i].geometry = <<>>

\* C3: the filtered view holds exactly the rows of the table whose year is the
\* selected year and whose category is selected, in table order; with no
\* category selected it is empty.
C3_FilteredView ==
    SidebarShown =>
        /\ \A i \in 1..Len(df) :
              (df[i] \in Range(filtered_df)) <=>
                  (df[i].year = selected_year /\ df[i].category \in selected_categories)
        /\ filtered_df = SelectSeq(df, LAMBDA r : r \in Range(filtered_df))
        /\ (selected_categories = {} => filtered_df = <<>>)

\* no category selected over a table that has rows of the selected year
C3_Witness ==
    /\ SidebarShown
    /\ selected_categories = {}
    /\ filtered_df = <<>>
    /\ \E i \in 1..Len(df) : df[i].year = selected_year

\* C4 (as claimed): when the request succeeded and there are no events, or no
\* record survives normalization, the run shows a warning and no error.
C4_EmptyIsNotError ==
    (status = "ok" /\ ~events_data.isnull /\ df = <<>>) =>
        /\ ~HasElement("st.error", 136)
        /\ ~HasElement("st.error", 42)
        /\ HasElement("st.warning", 133)

\* C5: after a failed request the latest run ended normally, rendered the error
\* with its cause and then the load error, built no table, ran no filter and no
\* map, and the failed call issued one request.
C5_FetchError ==
    (status # "init" /\ events_data.isnull) =>
        /\ status = "ok"
        /\ Len(trace) = 2
        /\ trace[1].elem = "st.error" /\ trace[1].line = 42
        /\ trace[1].cause \in {"ConnectionError", "HTTPError"}
        /\ trace[2] = El("st.error", 136)
        /\ df = <<>> /\ filtered_df = <<>>
        /\ selected_year = None /\ selected_categories = {}
        /\ Cardinality({i \in 1..Len(request_log) : request_log[i] = cache.stored_at}) = 1

\* the run that issued the failing request
C5_Witness ==
    /\ status = "ok"
    /\ ~cache_hit
    /\ events_data.isnull
    /\ request_log # <<>>
    /\ request_log[Len(request_log)] = run_at

\* C6 (as claimed): the run ends normally and the table holds exactly the
\* complete records whose date parses.
C6_UnparseableDateDropped ==
    Truthy(events_data) =>
        /\ status = "ok"
        /\ RawRows(df) =
             SelectSeq(events_data.val,
                       LAMBDA e : Complete(e) /\ Parses(e.geometry[1].date.val))

\* C7 (as claimed): a record is missing from the table exactly when its
\* geometry sequence is empty.
C7_OnlyEmptyGeometryDropped ==
    Truthy(events_data) =>
        \A i \in 1..Len(events_data.val) :
            (events_data.val[i] \notin Range(RawRows(df))) <=>
                (events_data.val[i].geometry = <<>>)

\* C7 (amended): a record is missing from the table exactly when its geometry
\* sequence is empty or its first geometry sample lacks a date or one of its
\* two leading coordinates.
C7_DroppedIffIncomplete ==
    Truthy(events_data) =>
        \A i \in 1..Len(events_data.val) :
            (events_data.val[i] \notin Range(RawRows(df))) <=>
                ~Complete(events_data.val[i])

\* a record with a non-empty geometry sequence was dropped
C7_Witness ==
    /\ Truthy(events_data)
    /\ \E i \in 1..Len(events_data.val) :
          /\ events_data.val[i].geometry # <<>>
          /\ events_data.val[i] \notin Range(RawRows(df))

\* C8: the table is the input with the records that do not survive removed:
\* order and repetitions are kept, and of the complete records that share an
\* id none is removed.
C8_OrderPreserved ==
    Truthy(events_data) =>
        /\ RawRows(df) =
             SelectSeq(events_data.val, LAMBDA e : e \in Range(RawRows(df)))
        /\ \A i, j \in 1..Len(events_data.val) :
              (/\ events_data.val[i].id = events_data.val[j].id
               /\ Complete(events_data.val[j])
               /\ events_data.val[i] \in Range(RawRows(df)))
                 => events_data.val[j] \in Range(RawRows(df))

\* two rows with the same id
C8_Witness ==
    /\ Truthy(events_data)
    /\ Len(df) >= 2
    /\ df[1].id = df[2].id

\* C9: in a finished table every row has the first category's title or "N/A",
\* the first sample's coordinate 1 as latitude and coordinate 0 as longitude,
\* unchanged, and the calendar year of the first sample's date as year.
C9_DerivedColumns ==
    SidebarShown =>
        \A i \in 1..Len(df) :
            /\ df[i].category =
                 (IF df[i].categories = <<>> THEN "N/A" ELSE df[i].categories[1].title)
            /\ df[i].latitude = df[i].geometry[1].coordinates[2]
            /\ df[i].longitude = df[i].geometry[1].coordinates[1]
            /\ \E t \in PoolStamps :
                  /\ df[i].geometry[1].date = Some(IsoString(t))
                  /\ df[i].date = Some(t)
                  /\ df[i].year = Some(t.year)

\* a row without category whose coordinates lie outside the geographic range
C9_Witness ==
    /\ SidebarShown
    /\ \E i \in 1..Len(df) :
          /\ df[i].category = "N/A"
          /\ df[i].longitude = Some(200)
          /\ df[i].latitude = Some(-95)
          /\ df[i].year = Some(2020)

\* C10: while a failed fetch is stored, the latest run got None and ended in the
\* load error; a run served from the cache ran less than 3600 seconds after the
\* failed request and added no request; requests are 3600 seconds apart.
C10_FailureCached ==
    (cache.valid /\ cache.value.isnull) =>
        /\ events_data = None
        /\ trace[Len(trace)] = El("st.error", 136)
        /\ request_log[Len(request_log)] = cache.stored_at
        /\ (cache_hit => run_at - cache.stored_at < 3600)
        /\ (~cache_hit => run_at = cache.stored_at)
        /\ \A i \in 1..(Len(request_log) - 1) :
              request_log[i + 1] - request_log[i] >= 3600

\* a re-run served the stored failure later in the window
C10_Witness ==
    /\ cache.valid /\ cache.value.isnull
    /\ cache_hit
    /\ run_at > cache.stored_at
    /\ HasElement("st.error", 136)

============================================================================
